---- MODULE Spec2Model ----
(***************************************************************************)
(* Rodeo: a dotfiles manager.  The model covers src/src/lib.rs (Settings   *)
(* and Program: deploy, collect, sync_local, sync_remote, sync_full,       *)
(* copy_file, standardize_path) and the command dispatch of                *)
(* src/src/main.rs.                                                        *)
(*                                                                         *)
(* Two specifications:                                                     *)
(*   Spec      one run of the program over a configuration of tracked      *)
(*             programs and a file system holding, for every tracked path, *)
(*             a repository copy and a system ("working") copy;            *)
(*   SpecPath  Program::standardize_path applied to bounded strings;       *)
(*   SpecTwice the sync_local command run twice in a row;                  *)
(*   SpecTree  deploy, collect and sync_local of one tracked path on path  *)
(*             strings and a directory tree.                               *)
(***************************************************************************)
EXTENDS Integers, Sequences, FiniteSets, TLC

VARIABLES
    programs,   \* Settings.programs, as loaded from the configuration file
    fs,         \* file system: slot -> [repo: file, work: file]
    todo,       \* phases of the command still to run; Head(todo) is the current one
    cmd,        \* the command main dispatched ("none" before dispatch)
    prog,       \* index of the program being processed
    idx,        \* index of the tracked path being processed
    log,        \* external effects so far, in order
    last,       \* what the most recent tracked-path iteration saw and did
    sp_path,    \* SpecPath: the path argument
    sp_home,    \* SpecPath: the home_dir argument
    boot,       \* what main did before it ran the command: the argument given,
                \* the configuration file I/O, and what it printed
    sp_out,     \* SpecPath: the values standardize_path returned, in order
    tree        \* SpecTree: one program and tracked path as path strings, the
                \* directories that exist, and the paths an operation used

vars == <<programs, fs, todo, cmd, prog, idx, log, last, boot,
          sp_path, sp_home, sp_out, tree>>

runVars == <<programs, fs, todo, cmd, prog, idx, log, last, boot>>
pathVars == <<sp_path, sp_home, sp_out>>
treeVars == <<tree>>

-----------------------------------------------------------------------------
(* Bounds *)

\* readings of the system clock and modification times range over 0..MaxTime
MaxTime == 2
\* modification times of the files present at start range over 0..MaxMtime
MaxMtime == 1
\* SpecPath: longest path string
MaxLen == 4

Times == 0..MaxTime

-----------------------------------------------------------------------------
(* Configuration: Settings.programs, struct Program *)

\* the configurations a run is started with: one program with two tracked
\* paths and a post-deploy command, or two programs with one tracked path
\* each, the second without a post-deploy command
Configs ==
    { << [name |-> "vim", paths |-> <<"vimrc", "gvimrc">>, post_deploy_cmd |-> "reload"] >>,
      << [name |-> "vim", paths |-> <<"vimrc">>,     post_deploy_cmd |-> "reload"],
         [name |-> "git", paths |-> <<"gitconfig">>, post_deploy_cmd |-> ""] >> }

\* the tracked paths of the configuration ps, as <<program, path>> indexes
Slots(ps) ==
    UNION { { <<i, j>> : j \in 1..Len(ps[i].paths) } : i \in 1..Len(ps) }

\* the slots from <<i, j>> on, in the order the nested loops visit them
RECURSIVE SlotsFrom(_, _, _)
SlotsFrom(ps, i, j) ==
    IF i > Len(ps) THEN <<>>
    ELSE IF j > Len(ps[i].paths) THEN SlotsFrom(ps, i + 1, 1)
    ELSE <<(<<i, j>>)>> \o SlotsFrom(ps, i, j + 1)

-----------------------------------------------------------------------------
(* The file system *)

\* a location that holds no file
NoFile == [exists |-> FALSE, mtime |-> 0, data |-> "none"]

\* the files a location can hold when the program starts; data names the
\* content: "R" is what the repository copy holds at start, "W" what the
\* system copy holds at start
InitFiles(d) ==
    {NoFile} \cup { [exists |-> TRUE, mtime |-> m, data |-> d] : m \in 0..MaxMtime }

\* what the runtime answers during one loop iteration: at most one I/O
\* failure, of fs::metadata or Metadata::modified on a file that exists or of
\* fs::copy (which fails before it writes: unreadable source, destination not
\* creatable); and the readings of the system clock (SystemTime::now, which
\* is not monotonic) by the two elapsed() calls, t1 for the repository file
\* and then t2 for the system file, and at the copy, t3
Fails ==
    {"none", "metadata_repo", "metadata_work", "modified_repo", "modified_work", "copy"}

\* an answer is a record [fail, t1, t2, t3]; the answers an iteration can tell
\* apart are enumerated, those it does not read are fixed.
\* An iteration that only copies reads neither metadata nor the clock of
\* elapsed(); a failed call ends the iteration before the later readings; a
\* failed copy sets no modification time; an iteration that finds neither
\* file reads nothing that can vary.
CopyIOs ==
    [fail : {"none"}, t1 : {0}, t2 : {0}, t3 : Times]
        \cup [fail : {"copy"}, t1 : {0}, t2 : {0}, t3 : {0}]

SyncIOs ==
    [fail : {"none"}, t1 : Times, t2 : Times, t3 : Times]
        \cup [fail : {"copy"}, t1 : Times, t2 : Times, t3 : {0}]
        \cup [fail : {"modified_work"}, t1 : Times, t2 : {0}, t3 : {0}]
        \cup [fail : {"metadata_repo", "metadata_work", "modified_repo"},
              t1 : {0}, t2 : {0}, t3 : {0}]

Inputs(phase, f) ==
    IF phase = "sync" /\ f.repo.exists /\ f.work.exists THEN SyncIOs
    ELSE IF phase = "sync" /\ ~f.repo.exists /\ ~f.work.exists
        THEN [fail : {"none"}, t1 : {0}, t2 : {0}, t3 : {0}]
    ELSE CopyIOs

\* fs::copy, were it to create the destination without writing the content
CopyFileEmpty(from, to, t, ok) ==
    IF from.exists /\ ok
    THEN [file |-> [exists |-> TRUE, mtime |-> t, data |-> "none"], ok |-> TRUE]
    ELSE [file |-> to, ok |-> FALSE]

\* fs::copy(from, to) inside Program::copy_file: Ok writes the source's
\* content to the destination, whose modification time becomes the time of
\* the copy; Err leaves the destination as it was
CopyFile(from, to, t, ok) ==
    IF from.exists /\ ok
    THEN [file |-> [exists |-> TRUE, mtime |-> t, data |-> from.data], ok |-> TRUE]
    ELSE [file |-> to, ok |-> FALSE]

\* SystemTime::elapsed at clock reading t of a file modified at m:
\* -1 stands for Err (the modification time is later than the clock)
Elapsed(m, t) == IF m <= t THEN t - m ELSE -1

\* the record of one loop iteration: the two files before it, the direction
\* and result of its copy_file call, the lines it printed, the number of
\* modified() calls it made, whether an I/O failure ended it, and the clock
\* readings of its elapsed() calls (-1: not called)
Rec(op, f) ==
    [op |-> op, before |-> f, copy |-> "none", ok |-> FALSE, msgs |-> <<>>,
     reads |-> 0, ioerr |-> FALSE, now1 |-> -1, now2 |-> -1]

NoRec == Rec("none", [repo |-> NoFile, work |-> NoFile])

\* one call of copy_file in direction dir, after the messages msgs and
\* `reads` calls of modified()
Copied(op, f, dir, msgs, reads, io) ==
    LET res == IF dir = "repo_to_work"
               THEN CopyFile(f.repo, f.work, io.t3, io.fail # "copy")
               ELSE CopyFile(f.work, f.repo, io.t3, io.fail # "copy")
    IN  [slot  |-> IF dir = "repo_to_work"
                   THEN [f EXCEPT !.work = res.file]
                   ELSE [f EXCEPT !.repo = res.file],
         rec   |-> [Rec(op, f) EXCEPT !.copy = dir, !.ok = res.ok, !.reads = reads,
                       !.msgs = msgs \o <<IF res.ok THEN "copied" ELSE "copy_error">>]]

\* an iteration that ends without a copy
Skipped(op, f, msgs, reads, ioerr) ==
    [slot  |-> f,
     rec   |-> [Rec(op, f) EXCEPT !.msgs = msgs, !.reads = reads, !.ioerr = ioerr]]

-----------------------------------------------------------------------------
(* Program: the body of the loop over self.paths, for one tracked path *)

\* Program::deploy, one iteration: copy_file(in_file, out_file)
DeployPath(f, io) == Copied("deploy", f, "repo_to_work", <<>>, 0, io)

\* Program::collect, one iteration: copy_file(in_file, out_file)
CollectPath(f, io) == Copied("collect", f, "work_to_repo", <<>>, 0, io)

\* the clock readings an iteration made, added to its record
Timed(res, t1, t2) == [res EXCEPT !.rec.now1 = t1, !.rec.now2 = t2]

\* Program::sync_local, the comparison of the two elapsed times
Compare(f, er, ew, io) ==
    IF er < ew THEN Copied("sync", f, "repo_to_work", <<>>, 2, io)
    ELSE IF er > ew THEN Copied("sync", f, "work_to_repo", <<>>, 2, io)
    ELSE Skipped("sync", f, <<"same_time">>, 2, FALSE)

\* the if/else-if chain on the existence of the two files, with the
\* directions of its two copies exchanged
ExistenceCaseSwapped(f) ==
    IF ~f.repo.exists /\ ~f.work.exists THEN "neither"
    ELSE IF ~f.repo.exists THEN "repo_to_work"
    ELSE IF ~f.work.exists THEN "work_to_repo"
    ELSE "both"

\* Program::sync_local, the if/else-if chain on the existence of the two
\* files: which branch is taken, named by the copy it makes
ExistenceCase(f) ==
    IF ~f.repo.exists /\ ~f.work.exists THEN "neither"
    ELSE IF ~f.repo.exists THEN "work_to_repo"
    ELSE IF ~f.work.exists THEN "repo_to_work"
    ELSE "both"

\* Program::sync_local, one iteration.  The first branch of the if/else-if
\* chain prints and, having no `continue`, falls through to fs::metadata.
SyncLocalPath(f, io) ==
    LET r == f.repo
        w == f.work
        case == ExistenceCase(f)
        pre == IF case = "neither" THEN <<"not_exist">> ELSE <<>>
    IN  IF case \in {"work_to_repo", "repo_to_work"}
            THEN Copied("sync", f, case, <<>>, 0, io)
        ELSE IF ~r.exists \/ io.fail = "metadata_repo"
            THEN Skipped("sync", f, pre \o <<"err_metadata_repo">>, 0, r.exists)
        ELSE IF ~w.exists \/ io.fail = "metadata_work"
            THEN Skipped("sync", f, pre \o <<"err_metadata_work">>, 0, w.exists)
        ELSE IF io.fail = "modified_repo"
            THEN Skipped("sync", f, <<"err_modified">>, 1, TRUE)
        ELSE IF Elapsed(r.mtime, io.t1) < 0
            THEN Timed(Skipped("sync", f, <<"err_modified">>, 1, FALSE), io.t1, -1)
        ELSE IF io.fail = "modified_work"
            THEN Timed(Skipped("sync", f, <<"err_modified">>, 2, TRUE), io.t1, -1)
        ELSE IF Elapsed(w.mtime, io.t2) < 0
            THEN Timed(Skipped("sync", f, <<"err_modified">>, 2, FALSE), io.t1, io.t2)
        ELSE Timed(Compare(f, Elapsed(r.mtime, io.t1), Elapsed(w.mtime, io.t2), io),
                   io.t1, io.t2)

\* Program::run_post_deploy_cmd: the effects it appends for program i
RunPostDeployCmd(p, i) ==
    IF p.post_deploy_cmd = "" THEN <<>>
    ELSE << [kind |-> "post_deploy", prog |-> i, path |-> 0] >>

-----------------------------------------------------------------------------
(* Settings and main: one run of the program *)

Commands ==
    {"deploy", "collect", "sync_local", "sync_remote", "sync_full", "help", "invalid"}

\* the match of main, were an unrecognised command to deploy
PhasesDefaultDeploy(c) ==
    CASE c = "deploy"      -> <<"deploy">>
      [] c = "collect"     -> <<"collect">>
      [] c = "sync_local"  -> <<"sync">>
      [] c = "sync_remote" -> <<"sync", "pull", "push">>
      [] c = "sync_full"   -> <<"pull", "sync", "push">>
      [] c = "help"        -> <<>>
      [] OTHER             -> <<"deploy">>

\* the match of main and the bodies of Settings::deploy, collect, sync_local,
\* sync_remote and sync_full, as the phases each runs, in order
Phases(c) ==
    CASE c = "deploy"      -> <<"deploy">>
      [] c = "collect"     -> <<"collect">>
      [] c = "sync_local"  -> <<"sync">>
      [] c = "sync_remote" -> <<"sync", "pull", "push">>
      [] c = "sync_full"   -> <<"pull", "sync", "push">>
      [] OTHER             -> <<>>

Event(k, i, j) == [kind |-> k, prog |-> i, path |-> j]

\* the commands of the bash script of Settings::git_push, chained by &&
GitPushScript == <<"cd_repo", "pull_repo", "add", "commit", "push">>

\* SpecTree's variable outside SpecTree
NoTree == [op |-> "off"]

\* the first command-line argument: a command, or none at all
Args == Commands \cup {"absent"}

\* the command main matches: "none" when no argument was given
Command(arg) == IF arg = "absent" THEN "none" ELSE arg

IO(op, ok) == [op |-> op, ok |-> ok]

\* the file operations of main and Settings::new_from_file on the
\* configuration, in order: the file is opened and read, or, when it cannot
\* be opened, ~/.config/rodeo is created as a directory and then as a file
ConfigIO(opened, read, mkdir, mkfile) ==
    IF opened
        THEN <<IO("open_config", TRUE), IO("read_config", read)>>
        ELSE <<IO("open_config", FALSE), IO("create_dir", mkdir), IO("create_file", mkfile)>>

\* main reaches the match of the command only with a configuration that was
\* opened, read and parsed: after a failed open every branch ends the run
\* (the file File::create returns is open for writing only, so reading it
\* fails), a failed read returns the error and a failed parse panics
Loaded(opened, read, parsed) == opened /\ read /\ parsed

\* what main prints
Printed(opened, loaded, arg) ==
    (IF opened THEN <<>> ELSE <<"no_path">>)
    \o (IF loaded /\ arg = "absent" THEN <<"no_command">> ELSE <<>>)
    \o (IF ~loaded THEN <<>>
        ELSE IF Command(arg) = "help" THEN <<"help">>
        ELSE IF Command(arg) \in {"invalid", "none"} THEN <<"invalid_command">>
        ELSE <<>>)

NoBoot == [arg |-> "unset", loaded |-> FALSE, io |-> <<>>, out |-> <<>>]

Init ==
    /\ tree = NoTree
    /\ boot = NoBoot
    /\ programs \in Configs
    /\ fs \in [Slots(programs) -> [repo : InitFiles("R"), work : InitFiles("W")]]
    /\ todo = <<"main">>
    /\ cmd = "none"
    /\ prog = 1
    /\ idx = 1
    /\ log = <<>>
    /\ last = NoRec
    /\ sp_path = <<>>
    /\ sp_home = <<>>
    /\ sp_out = <<>>

Running(phase) == todo # <<>> /\ Head(todo) = phase

\* main: the configuration is loaded, then the command given on the command
\* line selects the Settings method; without a loaded configuration the run
\* ends before the command is looked at
Main ==
    /\ Running("main")
    /\ \E arg \in Args, opened, read, parsed, mkdir, mkfile \in BOOLEAN :
          LET loaded == Loaded(opened, read, parsed)
          IN  /\ boot' = [arg |-> arg, loaded |-> loaded,
                          io |-> ConfigIO(opened, read, mkdir, mkfile),
                          out |-> Printed(opened, loaded, arg)]
              /\ cmd' = IF loaded THEN Command(arg) ELSE cmd
              /\ todo' = IF loaded THEN Phases(Command(arg)) ELSE <<>>
    /\ UNCHANGED <<programs, fs, prog, idx, log, last, pathVars, treeVars>>

\* the loops, were they to end the run at an iteration whose copy failed or
\* that printed an error
AdvanceUnlessFailed ==
    IF (last'.copy # "none" /\ ~last'.ok) \/ last'.ioerr \/ last'.msgs = <<"err_modified">>
        THEN /\ todo' = <<>>
             /\ UNCHANGED <<prog, idx>>
    ELSE IF idx < Len(programs[prog].paths)
        THEN /\ idx' = idx + 1
             /\ UNCHANGED <<prog, todo>>
    ELSE IF prog < Len(programs)
        THEN /\ prog' = prog + 1
             /\ idx' = 1
             /\ UNCHANGED todo
    ELSE /\ prog' = 1
         /\ idx' = 1
         /\ todo' = Tail(todo)

\* the loops `for i in self.programs` and `for i in self.paths` move on to
\* the next tracked path, the next program, or the next phase
Advance ==
    IF idx < Len(programs[prog].paths)
        THEN /\ idx' = idx + 1
             /\ UNCHANGED <<prog, todo>>
    ELSE IF prog < Len(programs)
        THEN /\ prog' = prog + 1
             /\ idx' = 1
             /\ UNCHANGED todo
    ELSE /\ prog' = 1
         /\ idx' = 1
         /\ todo' = Tail(todo)

\* the body of the loop over self.paths in deploy, collect and sync_local
LoopBody(phase, f, io) ==
    CASE phase = "deploy"  -> DeployPath(f, io)
      [] phase = "collect" -> CollectPath(f, io)
      [] phase = "sync"    -> SyncLocalPath(f, io)

\* one iteration of the loop over the tracked paths of the current program
PathStep(phase) ==
    /\ Running(phase)
    /\ \E io \in Inputs(phase, fs[<<prog, idx>>]) :
          LET res == LoopBody(phase, fs[<<prog, idx>>], io)
          IN  /\ fs' = [fs EXCEPT ![<<prog, idx>>] = res.slot]
              /\ last' = res.rec
    /\ log' = Append(log, Event(phase, prog, idx))
    /\ Advance
    /\ UNCHANGED <<programs, cmd, boot, pathVars, treeVars>>

Deploy == PathStep("deploy")

Collect == PathStep("collect")

SyncLocal == PathStep("sync")

\* Settings::git_pull: `git pull` in the working directory of the process,
\* which is dotfiles_directory (cwdIsRepo) or another directory;
\* Command::output().unwrap() panics when bash cannot be started
GitPull ==
    /\ Running("pull")
    /\ \E spawned \in BOOLEAN, cwdIsRepo \in BOOLEAN :
          IF spawned
          THEN /\ log' = Append(log, Event(IF cwdIsRepo THEN "pull_repo" ELSE "pull_cwd", 0, 0))
               /\ todo' = Tail(todo)
          ELSE /\ log' = Append(log, Event("panic", 0, 0))
               /\ todo' = <<>>
    /\ UNCHANGED <<programs, fs, cmd, prog, idx, last, boot, pathVars, treeVars>>

\* Settings::git_push: the first n commands of the script succeed
GitPush ==
    /\ Running("push")
    /\ \E spawned \in BOOLEAN, n \in 0..Len(GitPushScript) :
          IF spawned
          THEN /\ log' = log \o [k \in 1..n |-> Event(GitPushScript[k], 0, 0)]
               /\ todo' = Tail(todo)
          ELSE /\ log' = Append(log, Event("panic", 0, 0))
               /\ todo' = <<>>
    /\ UNCHANGED <<programs, fs, cmd, prog, idx, last, boot, pathVars, treeVars>>

Next == Main \/ Deploy \/ Collect \/ SyncLocal \/ GitPull \/ GitPush

Spec == Init /\ [][Next]_vars

-----------------------------------------------------------------------------
(* Program::standardize_path on strings, a string being a sequence of characters *)

Chars == {"/", "~", "a"}

\* the strings of at most n characters
RECURSIVE Strings(_)
Strings(n) ==
    IF n = 0 THEN { <<>> }
    ELSE Strings(n - 1) \cup { Append(s, ch) : s \in Strings(n - 1), ch \in Chars }

\* the value of $HOME: a user's home directory, or the root directory
Homes == { <<"/", "h">>, <<"/">> }

\* str::replace(pat, to): the non-overlapping matches of pat, found from left
\* to right, are replaced; the text put in place of a match is not searched again
RECURSIVE Replace(_, _, _)
Replace(s, pat, to) ==
    IF Len(s) < Len(pat) THEN s
    ELSE IF SubSeq(s, 1, Len(pat)) = pat
        THEN to \o Replace(SubSeq(s, Len(pat) + 1, Len(s)), pat, to)
    ELSE <<Head(s)>> \o Replace(Tail(s), pat, to)

\* String::pop when the last character is '/'
PopTrailingSlash(s) ==
    IF s # <<>> /\ s[Len(s)] = "/" THEN SubSeq(s, 1, Len(s) - 1) ELSE s

StandardizePath(path, home_dir) ==
    Replace(PopTrailingSlash(Replace(path, <<"~">>, home_dir)), <<"/", "/">>, <<"/">>)

InitPath ==
    /\ tree = NoTree
    /\ boot = NoBoot
    /\ sp_path \in Strings(MaxLen)
    /\ sp_home \in Homes
    /\ sp_out = <<>>
    /\ programs = <<>>
    /\ fs = <<>>
    /\ todo = <<>>
    /\ cmd = "none"
    /\ prog = 1
    /\ idx = 1
    /\ log = <<>>
    /\ last = NoRec

\* standardize_path(path, home_dir), then standardize_path of its result
Standardize ==
    /\ Len(sp_out) < 2
    /\ sp_out' = Append(sp_out,
                        StandardizePath(IF sp_out = <<>> THEN sp_path ELSE sp_out[1], sp_home))
    /\ UNCHANGED <<sp_path, sp_home, runVars, treeVars>>

NextPath == Standardize

SpecPath == InitPath /\ [][NextPath]_vars

-----------------------------------------------------------------------------
(* Properties of Program::sync_local, stated on the record of the iteration *)

PathKinds == {"deploy", "collect", "sync"}

\* the last effect is a loop iteration, which `last` then records
PathJustRun == log # <<>> /\ log[Len(log)].kind \in PathKinds

\* the tracked path of the iteration `last` records
LastSlot == << log[Len(log)].prog, log[Len(log)].path >>

\* sync_local found both files and read both modification times
BothRead ==
    /\ last.op = "sync"
    /\ last.before.repo.exists
    /\ last.before.work.exists
    /\ ~last.ioerr

\* sync_local computed both ages, at clock readings that do not run backwards
AgesComputedForward ==
    /\ BothRead
    /\ last.msgs # <<"err_modified">>
    /\ last.now1 <= last.now2

\* C1: in sync_local, when both copies exist and the repository copy has the
\* strictly later modification time, the decision is always to copy the
\* repository file over the system file, never the reverse and never a skip,
\* whatever the clock reads at the two age computations.
C1_RepoNewerCopiesRepoToSystem ==
    (BothRead /\ last.before.repo.mtime > last.before.work.mtime)
        => last.copy = "repo_to_work"

\* C2: in sync_local, when both copies exist and the system copy has the
\* strictly later modification time, the decision is always to copy the system
\* file over the repository file; the newer system file is never overwritten
\* by the older repository file.  Stated for the runs in which both ages are
\* computed (repository first, system second) and the clock does not run
\* backwards between the two computations.
C2_SystemNewerCopiesSystemToRepo ==
    (AgesComputedForward /\ last.before.work.mtime > last.before.repo.mtime)
        => last.copy = "work_to_repo"

\* C3: in sync_local, when both copies exist and have the same modification
\* time, no copy occurs in either direction and the only line printed is the
\* "modified at the same time" diagnostic.  Stated for the runs in which both
\* ages are computed and the clock does not run backwards between the two
\* computations.
C3_SameMtimeNoCopy ==
    (AgesComputedForward /\ last.before.repo.mtime = last.before.work.mtime)
        => (last.copy = "none" /\ last.msgs = <<"same_time">>)

\* C5: in sync_local, when neither copy exists, no copy is attempted and no
\* error is reported: the only line printed is the "does not exist" diagnostic.
C5_NeitherExistsOnlyDiagnostic ==
    (last.op = "sync" /\ ~last.before.repo.exists /\ ~last.before.work.exists)
        => (last.copy = "none" /\ last.msgs = <<"not_exist">>)

\* the position of the loops is right after the iteration `last` records:
\* at the next tracked path in visiting order, or past the loops
MovedOn ==
    LET rest == SlotsFrom(programs, LastSlot[1], LastSlot[2])
    IN  IF Len(rest) > 1
        THEN Running(log[Len(log)].kind) /\ <<prog, idx>> = rest[2]
        ELSE ~Running(log[Len(log)].kind)

Failed ==
    \/ last.copy # "none" /\ ~last.ok
    \/ last.ioerr
    \/ last.msgs = <<"err_modified">>

\* the tracked paths the loops have processed so far, in order
PathsDone ==
    LET ev == SelectSeq(log, LAMBDA e : e.kind \in PathKinds)
    IN  [k \in 1..Len(ev) |-> << ev[k].prog, ev[k].path >>]

\* a loop over the tracked paths is running or still to run
PathPhasePending == \E k \in 1..Len(todo) : todo[k] \in PathKinds

-----------------------------------------------------------------------------
(* Properties of deploy and of sync_full, stated on the effects in order *)

\* the positions in the log of the effects of kind k for program i
Positions(k, i) == { n \in 1..Len(log) : log[n].kind = k /\ log[n].prog = i }

\* C7: deploy runs a program's post-deploy command whenever post_deploy_cmd is
\* non-empty, exactly once and only after every tracked path of that program
\* has been copied; with an empty post_deploy_cmd no command is run.
C7_PostDeployRunsOnceAfterCopies ==
    \A i \in 1..Len(programs) :
        (cmd = "deploy" /\ (todo = <<>> \/ prog > i))
            => IF programs[i].post_deploy_cmd = ""
               THEN Positions("post_deploy", i) = {}
               ELSE /\ Cardinality(Positions("post_deploy", i)) = 1
                    /\ \A n \in Positions("post_deploy", i), m \in Positions("deploy", i) :
                          m < n

\* the effects of the commands of git_push's script other than its pull
PushKinds == {"cd_repo", "add", "commit", "push"}

\* C8: sync_full runs, in this order, the pull of the repository directory,
\* the reconciliation of every program and the push: a pull of the repository
\* has completed before any tracked path is reconciled, nothing is pulled
\* into the repository after the reconciliation has started, and the push
\* starts only after the last tracked path has been reconciled.
C8_SyncFullPullThenReconcileThenPush ==
    cmd = "sync_full" =>
        \A n \in 1..Len(log) :
            /\ log[n].kind = "sync" => \E m \in 1..(n - 1) : log[m].kind = "pull_repo"
            /\ log[n].kind = "pull_repo" => \A m \in 1..(n - 1) : log[m].kind # "sync"
            /\ log[n].kind \in PushKinds
                  => Cardinality({ m \in 1..(n - 1) : log[m].kind = "sync" })
                        = Len(SlotsFrom(programs, 1, 1))

-----------------------------------------------------------------------------
(* Properties of standardize_path *)

\* C9: standardize_path is idempotent: standardizing its own result, with the
\* same home directory, returns that result unchanged.  Stated for the paths
\* whose result is not the root directory "/" alone.
C9_StandardizePathIdempotent ==
    (Len(sp_out) = 2 /\ sp_out[1] # <<"/">>) => sp_out[2] = sp_out[1]

\* C10: the string standardize_path returns for a path and a home directory
\* never ends with the path separator '/'.  Stated for the paths whose result
\* is not the root directory "/" alone.
C10_NoTrailingSeparator ==
    (Len(sp_out) >= 1 /\ sp_out[1] # <<>> /\ sp_out[1] # <<"/">>)
        => sp_out[1][Len(sp_out[1])] # "/"

-----------------------------------------------------------------------------
(* SpecTree: the path strings deploy, collect and sync_local build for one  *)
(* tracked path of one program, and the directories that exist.  A path    *)
(* string is a sequence of characters, as in SpecPath.                     *)

\* Program.root as written in the configuration: the strings of SpecPath that
\* start at the home directory ("~", "~/...") or at the root directory
Roots ==
    { s \in Strings(MaxLen) :
        /\ s # <<>>
        /\ s[1] = "/" \/ (s[1] = "~" /\ (Len(s) = 1 \/ s[2] = "/"))
        /\ \A k \in 2..Len(s) : s[k] # "~" }

\* dotfiles_directory as written in the configuration
Dotfiles == { <<"~", "/", "d">>, <<"/", "d", "/">> }

\* an entry of Program.paths: a file name, or a file in a subdirectory
TrackedPaths == { <<"f">>, <<"s", "/", "f">> }

\* format!("{}/{}", a, b)
Join(a, b) == a \o <<"/">> \o b

\* self.root.replace("~/", "")
RootTail(root) == Replace(root, <<"~", "/">>, <<>>)

\* settings.dotfiles_directory after Settings::new_from_file
DotfilesDirectory(t) == Replace(t.dotfiles, <<"~">>, t.home)

\* Program::deploy: in_file, out_file and the directory it creates
DeployIn(t) ==
    Join(Join(StandardizePath(DotfilesDirectory(t), t.home), RootTail(t.root)), t.path)
DeployOut(t) == Join(StandardizePath(t.root, t.home), t.path)
DeployDir(t) == Join(StandardizePath(t.root, t.home), RootTail(t.root))

\* Program::collect: in_file, out_file and the directory it creates
CollectIn(t) == Join(StandardizePath(t.root, t.home), t.path)
\* out_file without the root's directory in the repository (a variant for
\* comparison, not the code's)
CollectOutFlat(t) == Join(StandardizePath(DotfilesDirectory(t), t.home), t.path)
CollectOut(t) ==
    Join(Join(StandardizePath(DotfilesDirectory(t), t.home), RootTail(t.root)), t.path)
CollectDir(t) == Join(StandardizePath(DotfilesDirectory(t), t.home), RootTail(t.root))

\* Program::sync_local: repo_file, working_file and the directories it creates
SyncRepoFile(t) ==
    Join(Join(StandardizePath(DotfilesDirectory(t), t.home), RootTail(t.root)), t.path)
SyncWorkingFile(t) == Join(StandardizePath(t.root, t.home), t.path)
SyncWorkDir(t) == StandardizePath(t.root, t.home)
SyncRepoDir(t) == Join(StandardizePath(DotfilesDirectory(t), t.home), RootTail(t.root))

\* Program::copy_file: the names it hands to fs::copy
CopyName(s) == Replace(s, <<"/", "/">>, <<"/">>)

\* the components of a path string: the non-empty pieces between separators
RECURSIVE Segs(_, _)
Segs(s, cur) ==
    IF s = <<>> THEN (IF cur = <<>> THEN <<>> ELSE <<cur>>)
    ELSE IF Head(s) = "/"
         THEN (IF cur = <<>> THEN <<>> ELSE <<cur>>) \o Segs(Tail(s), <<>>)
         ELSE Segs(Tail(s), Append(cur, Head(s)))

\* the file or directory a path string names to the operating system, which
\* reads repeated separators as one and ignores a trailing one
Ident(s) == [abs |-> s # <<>> /\ s[1] = "/", segs |-> Segs(s, <<>>)]

\* the directory holding the file or directory id
Parent(id) ==
    [abs |-> id.abs,
     segs |-> IF id.segs = <<>> THEN <<>> ELSE SubSeq(id.segs, 1, Len(id.segs) - 1)]

\* the directory id and every directory above it
Ancestors(id) == { [abs |-> id.abs, segs |-> SubSeq(id.segs, 1, k)] : k \in 0..Len(id.segs) }

\* fs::create_dir_all(dir).unwrap_or_default(): every missing directory on the
\* way to dir is created; a failure is ignored and creates nothing
CreateDirAll(dirs, dir, ok) == IF ok THEN dirs \cup Ancestors(Ident(dir)) ELSE dirs

\* the directories before the program runs: the home directory alone, or also
\* the directories that hold the tracked file on both sides
DirChoices(t) ==
    LET base == Ancestors(Ident(t.home))
    IN  { base,
          base \cup Ancestors(Parent(Ident(DeployIn(t))))
               \cup Ancestors(Parent(Ident(DeployOut(t)))) }

\* fs::copy(from, to) inside copy_file: it cannot create the destination file
\* unless the directory that is to hold it exists
TreeCopy(t, dir, from, to, ok) ==
    [t EXCEPT !.copy = dir, !.from = CopyName(from), !.to = CopyName(to),
              !.copied = ok /\ Parent(Ident(CopyName(to))) \in t.dirs]

InitTree ==
    /\ \E r \in Roots, d \in Dotfiles, h \in Homes, p \in TrackedPaths :
          LET t == [op |-> "none", root |-> r, dotfiles |-> d, home |-> h, path |-> p,
                    dirs |-> {}, made |-> FALSE, copy |-> "none", copied |-> FALSE,
                    from |-> <<>>, to |-> <<>>, repo_file |-> <<>>, working_file |-> <<>>]
          IN  \E ds \in DirChoices(t) : tree = [t EXCEPT !.dirs = ds]
    /\ programs = <<>> /\ fs = <<>> /\ todo = <<>> /\ cmd = "none"
    /\ prog = 1 /\ idx = 1 /\ log = <<>> /\ last = NoRec /\ boot = NoBoot
    /\ sp_path = <<>> /\ sp_home = <<>> /\ sp_out = <<>>

\* Program::deploy for the tracked path
TreeDeploy ==
    /\ tree.op = "none"
    /\ \E made, ok \in BOOLEAN :
          LET t == [tree EXCEPT !.op = "deploy", !.made = made,
                                !.dirs = CreateDirAll(tree.dirs, DeployDir(tree), made)]
          IN  tree' = TreeCopy(t, "repo_to_work", DeployIn(tree), DeployOut(tree), ok)
    /\ UNCHANGED <<runVars, pathVars>>

\* Program::collect for the tracked path
TreeCollect ==
    /\ tree.op = "none"
    /\ \E made, ok \in BOOLEAN :
          LET t == [tree EXCEPT !.op = "collect", !.made = made,
                                !.dirs = CreateDirAll(tree.dirs, CollectDir(tree), made)]
          IN  tree' = TreeCopy(t, "work_to_repo", CollectIn(tree), CollectOut(tree), ok)
    /\ UNCHANGED <<runVars, pathVars>>

\* Program::sync_local for the tracked path; which way it copies, if at all,
\* follows from the two files (see SyncLocalPath) and is left open here
TreeSyncLocal ==
    /\ tree.op = "none"
    /\ \E made, ok \in BOOLEAN, dir \in {"none", "repo_to_work", "work_to_repo"} :
          LET t == [tree EXCEPT !.op = "sync_local", !.made = made,
                                !.dirs = CreateDirAll(CreateDirAll(tree.dirs, SyncWorkDir(tree), made),
                                                      SyncRepoDir(tree), made),
                                !.repo_file = SyncRepoFile(tree),
                                !.working_file = SyncWorkingFile(tree)]
          IN  tree' = CASE dir = "repo_to_work" ->
                             TreeCopy(t, dir, SyncRepoFile(tree), SyncWorkingFile(tree), ok)
                        [] dir = "work_to_repo" ->
                             TreeCopy(t, dir, SyncWorkingFile(tree), SyncRepoFile(tree), ok)
                        [] OTHER -> t
    /\ UNCHANGED <<runVars, pathVars>>

NextTree == TreeDeploy \/ TreeCollect \/ TreeSyncLocal

SpecTree == InitTree /\ [][NextTree]_vars

-----------------------------------------------------------------------------
(* Properties of the directories and of the path mapping *)

\* C11: whenever deploy, collect or sync_local attempts a copy after its
\* directory creation succeeded, the directory that is to hold the
\* destination file exists, also for a tracked path with a subdirectory.
\* Stated for a program root that is a directory directly below a home
\* directory other than "/" (as "~/a").
C11_DestinationParentEnsured ==
    (/\ tree.op # "none" /\ tree.made /\ tree.copy # "none"
     /\ tree.home # <<"/">> /\ Len(tree.root) > 2 /\ tree.root[1] = "~"
     /\ \A k \in 3..Len(tree.root) : tree.root[k] # "/")
        => Parent(Ident(tree.to)) \in tree.dirs

\* C12: collect is the inverse of deploy and sync_local uses the same pair:
\* deploy copies from R(p) to S(p), collect copies from the file deploy
\* writes, S(p), to the file deploy reads, R(p), and sync_local probes and
\* copies between those same two files, in either direction.
C12_CollectInverseSyncSamePair ==
    LET R == Ident(CopyName(DeployIn(tree)))
        S == Ident(CopyName(DeployOut(tree)))
    IN  /\ tree.op = "deploy" => Ident(tree.from) = R /\ Ident(tree.to) = S
        /\ tree.op = "collect" => Ident(tree.from) = S /\ Ident(tree.to) = R
        /\ tree.op = "sync_local" =>
              /\ Ident(tree.repo_file) = R /\ Ident(tree.working_file) = S
              /\ tree.copy = "repo_to_work" => Ident(tree.from) = R /\ Ident(tree.to) = S
              /\ tree.copy = "work_to_repo" => Ident(tree.from) = S /\ Ident(tree.to) = R

\* C12 witness: collect has copied a tracked path with a subdirectory, under
\* a root below the home directory, between two different files.
C12_Witness ==
    /\ tree.op = "collect" /\ tree.copied
    /\ tree.root = <<"~", "/", "a">> /\ tree.path = <<"s", "/", "f">>
    /\ Ident(tree.from) # Ident(tree.to)

-----------------------------------------------------------------------------
(* Properties of main for a command it does not recognise *)

\* main has ended without running a Settings method
Stopped == boot.arg # "unset" /\ todo = <<>> /\ log = <<>> /\ last = NoRec

\* the command-line arguments main does not recognise: an unknown word, or
\* no argument at all
Unrecognised == {"invalid", "absent"}

-----------------------------------------------------------------------------
(* SpecTwice: `rodeo sync_local` run a second time right after the first,  *)
(* with no change to any file in between: two passes of                    *)
(* Settings::sync_local over the same configuration and files.             *)

\* the configurations run twice: those of one program, whose two tracked
\* paths are reconciled one after the other in each pass
TwiceConfigs == { ps \in Configs : Len(ps) = 1 }

InitTwice ==
    /\ tree = NoTree
    /\ boot = [arg |-> "sync_local", loaded |-> TRUE,
               io |-> ConfigIO(TRUE, TRUE, FALSE, FALSE), out |-> <<>>]
    /\ programs \in TwiceConfigs
    /\ fs \in [Slots(programs) -> [repo : InitFiles("R"), work : InitFiles("W")]]
    /\ todo = <<"sync", "sync">>
    /\ cmd = "sync_local"
    /\ prog = 1
    /\ idx = 1
    /\ log = <<>>
    /\ last = NoRec
    /\ sp_path = <<>>
    /\ sp_home = <<>>
    /\ sp_out = <<>>

NextTwice == SyncLocal

SpecTwice == InitTwice /\ [][NextTwice]_vars

\* the iteration `last` records found both files, holding the same content
SameContentBefore ==
    /\ last.before.repo.exists /\ last.before.work.exists
    /\ last.before.repo.data = last.before.work.data

\* C14: sync_local converges on content.  After an iteration whose copy
\* succeeded, the repository file and the system file of that tracked path
\* both exist and hold the same content; and an iteration that finds the two
\* files with the same content, as every iteration of a later pass over such
\* a path does, leaves the content at both locations as it was, whichever way
\* it copies, if at all.
C14_SyncLocalConvergesOnContent ==
    PathJustRun =>
        /\ (last.copy # "none" /\ last.ok)
              => /\ fs[LastSlot].repo.exists /\ fs[LastSlot].work.exists
                 /\ fs[LastSlot].repo.data = fs[LastSlot].work.data
        /\ SameContentBefore
              => /\ fs[LastSlot].repo.exists /\ fs[LastSlot].work.exists
                 /\ fs[LastSlot].repo.data = last.before.repo.data
                 /\ fs[LastSlot].work.data = last.before.work.data

\* C14 witness: the second pass has copied, from the system to the
\* repository, over a tracked path that the first pass had made equal by a
\* copy in the other direction.
C14_Witness ==
    /\ PathJustRun /\ Len(log) > Len(SlotsFrom(programs, 1, 1))
    /\ SameContentBefore /\ last.before.repo.data = "R"
    /\ last.copy = "work_to_repo" /\ last.ok

====
